---- MODULE Spec2Model ----
(***************************************************************************)
(* Terrain / vegetation core of Green-Planet: WorldSphere (sphere.ts) keeps *)
(* per-vertex visited/fertility state, GrassSystem (grassSystem.ts) seeds   *)
(* instanced grass blades on fertile vertices, Game (game.ts) drives both   *)
(* from its animation loop, and PerlinNoise displaces the mesh once.        *)
(*                                                                          *)
(* Every JavaScript number that takes part in a comparison of the program   *)
(* is an IEEE-754 double.  Doubles are modelled exactly: a non-negative     *)
(* double is [sig, exp] with value sig * 2^exp, sig a 53-bit natural kept   *)
(* as little-endian limbs of LimbBits bits (TLC integers are 32 bits wide), *)
(* and every arithmetic operation rounds to nearest, ties to even.          *)
(***************************************************************************)
EXTENDS Integers, Sequences, FiniteSets, TLC

----------------------------------------------------------------------------
(* Double precision arithmetic                                              *)

LimbBits == 15
B == 2^LimbBits

RECURSIVE Trim(_)
Trim(a) == IF a = <<>> THEN a
           ELSE IF a[Len(a)] = 0 THEN Trim(SubSeq(a, 1, Len(a) - 1)) ELSE a

RECURSIVE BigAdd(_, _, _)
BigAdd(a, b, c) ==
  IF a = <<>> /\ b = <<>> THEN (IF c = 0 THEN <<>> ELSE <<c>>)
  ELSE LET x == (IF a = <<>> THEN 0 ELSE Head(a)) + (IF b = <<>> THEN 0 ELSE Head(b)) + c
       IN <<x % B>> \o BigAdd(IF a = <<>> THEN a ELSE Tail(a),
                              IF b = <<>> THEN b ELSE Tail(b), x \div B)

RECURSIVE BigMulSmall(_, _, _)
BigMulSmall(a, k, c) ==
  IF a = <<>> THEN (IF c = 0 THEN <<>> ELSE <<c % B>> \o BigMulSmall(a, k, c \div B))
  ELSE LET x == Head(a) * k + c
       IN <<x % B>> \o BigMulSmall(Tail(a), k, x \div B)

RECURSIVE BigDivMod(_, _)
BigDivMod(a, t) ==
  IF a = <<>> THEN [q |-> <<>>, r |-> 0]
  ELSE LET hi  == BigDivMod(Tail(a), t)
           cur == hi.r * B + Head(a)
       IN [q |-> <<cur \div t>> \o hi.q, r |-> cur % t]

RECURSIVE BigLess(_, _)
BigLess(a, b) ==
  IF Len(a) # Len(b) THEN Len(a) < Len(b)
  ELSE IF a = <<>> THEN FALSE
  ELSE IF a[Len(a)] # b[Len(b)] THEN a[Len(a)] < b[Len(b)]
  ELSE BigLess(SubSeq(a, 1, Len(a) - 1), SubSeq(b, 1, Len(b) - 1))

Zeros(n) == [i \in 1..n |-> 0]

BitLenLimb(x) == IF x = 0 THEN 0 ELSE CHOOSE k \in 1..LimbBits : 2^(k-1) <= x /\ x < 2^k

BitLen(a) == LET t == Trim(a)
             IN IF t = <<>> THEN 0 ELSE LimbBits * (Len(t) - 1) + BitLenLimb(t[Len(t)])

ShiftLeft(a, s) == Trim(Zeros(s \div LimbBits) \o BigMulSmall(a, 2^(s % LimbBits), 0))

\* q = floor(a / 2^s), sticky = (a mod 2^s # 0)
ShiftRight(a, s) ==
  LET n    == s \div LimbBits
      low  == SubSeq(a, 1, IF n < Len(a) THEN n ELSE Len(a))
      rest == IF n < Len(a) THEN SubSeq(a, n + 1, Len(a)) ELSE <<>>
      dm   == BigDivMod(rest, 2^(s % LimbBits))
  IN [q |-> Trim(dm.q), sticky |-> (dm.r # 0) \/ (\E i \in 1..Len(low) : low[i] # 0)]

IsOdd(a) == a # <<>> /\ a[1] % 2 = 1

BigFromInt(n) == Trim(<<n % B, (n \div B) % B, n \div (B * B)>>)

BigToInt(a) == IF a = <<>> THEN 0 ELSE a[1] + (IF Len(a) > 1 THEN a[2] * B ELSE 0)

FZero == [sig |-> <<>>, exp |-> 0]

\* the double nearest to (N + sticky) * 2^E among those of at most
\* precision significant bits, ties to even; sticky stands for a non-zero
\* part of the exact value below the last bit of N
RoundTo(precision, N, E, sticky) ==
  LET n  == Trim(N)
      bl == BitLen(n)
  IN IF bl = 0 THEN FZero
     ELSE IF bl <= precision THEN [sig |-> ShiftLeft(n, 53 - bl), exp |-> E - (53 - bl)]
     ELSE LET s  == bl - precision
              q2 == ShiftRight(n, s - 1)
              q  == ShiftRight(q2.q, 1).q
              st == q2.sticky \/ sticky
              up == IsOdd(q2.q) /\ (st \/ IsOdd(q))
              q1 == IF up THEN Trim(BigAdd(q, <<1>>, 0)) ELSE q
              bq == BitLen(q1)
          IN IF bq > 53 THEN [sig |-> ShiftRight(q1, bq - 53).q, exp |-> E + s + (bq - 53)]
             ELSE [sig |-> ShiftLeft(q1, 53 - bq), exp |-> E + s - (53 - bq)]

\* the nearest double
Round(N, E, sticky) == RoundTo(53, N, E, sticky)

\* Math.fround(a): the nearest single precision number, as a Float32Array
\* stores a
Fround(a) == RoundTo(24, a.sig, a.exp, FALSE)

\* an integer literal or integer-valued number
FromInt(n) == Round(BigFromInt(n), 0, FALSE)

FOne == FromInt(1)

\* a + b
FAdd(a, b) ==
  IF a = FZero THEN b ELSE IF b = FZero THEN a
  ELSE LET E == IF a.exp < b.exp THEN a.exp ELSE b.exp
       IN Round(BigAdd(ShiftLeft(a.sig, a.exp - E), ShiftLeft(b.sig, b.exp - E), 0), E, FALSE)

\* a * k for an integer-valued k
FMulInt(a, k) == IF a = FZero THEN FZero ELSE Round(BigMulSmall(a.sig, k, 0), a.exp, FALSE)

\* v / t for integer-valued v >= 0, t > 0; also the value of a decimal
\* literal v/t such as 0.01 = 1/100
FDivInts(v, t) ==
  LET dm == BigDivMod(ShiftLeft(BigFromInt(v), 75), t)
  IN Round(dm.q, -75, dm.r # 0)

\* a < b
FLess(a, b) ==
  IF b = FZero THEN FALSE
  ELSE IF a = FZero THEN TRUE
  ELSE IF a.exp # b.exp THEN a.exp < b.exp
  ELSE BigLess(a.sig, b.sig)

FLeq(a, b) == ~FLess(b, a)

\* Math.min(a, b)
FMin(a, b) == IF FLess(b, a) THEN b ELSE a

\* a - b for a >= b
RECURSIVE BigSub(_, _, _)
BigSub(a, b, c) ==
  IF a = <<>> THEN <<>>
  ELSE LET x == Head(a) - (IF b = <<>> THEN 0 ELSE Head(b)) - c
       IN <<x % B>> \o BigSub(Tail(a), IF b = <<>> THEN b ELSE Tail(b),
                               IF x < 0 THEN 1 ELSE 0)

\* a - b for a >= b >= 0
FSub(a, b) ==
  IF b = FZero THEN a
  ELSE LET E == IF a.exp < b.exp THEN a.exp ELSE b.exp
       IN Round(BigSub(ShiftLeft(a.sig, a.exp - E), ShiftLeft(b.sig, b.exp - E), 0), E, FALSE)

\* a * 0.5
FHalf(a) == IF a = FZero THEN FZero ELSE [a EXCEPT !.exp = a.exp - 1]

\* Math.floor(a)
FFloor(a) == IF a = FZero THEN 0
             ELSE IF a.exp >= 0 THEN BigToInt(ShiftLeft(a.sig, a.exp))
             ELSE BigToInt(ShiftRight(a.sig, -a.exp).q)

----------------------------------------------------------------------------
(* Dyadic numbers                                                           *)

\* PerlinNoise is sampled by the model at points whose coordinates are
\* multiples of 1/4.  Every intermediate value of noise() is then a dyadic
\* rational of fewer than 32 bits, which a double holds exactly, so that
\* each double operation of noise() is exact: the value is [n, e], standing
\* for n / 2^e, with n odd or e = 0.
RECURSIVE Dy(_, _)
Dy(n, e) == IF e > 0 /\ n % 2 = 0 THEN Dy(n \div 2, e - 1) ELSE [n |-> n, e |-> e]

DInt(k) == [n |-> k, e |-> 0]

DZero == DInt(0)

DOne == DInt(1)

DAdd(a, b) ==
  IF a.e >= b.e THEN Dy(a.n + b.n * 2^(a.e - b.e), a.e)
  ELSE Dy(a.n * 2^(b.e - a.e) + b.n, b.e)

DNeg(a) == [a EXCEPT !.n = -a.n]

DSub(a, b) == DAdd(a, DNeg(b))

DMul(a, b) == Dy(a.n * b.n, a.e + b.e)

\* Math.floor(a)
DFloor(a) == a.n \div 2^(a.e)

DLeq(a, b) ==
  IF a.e >= b.e THEN a.n <= b.n * 2^(a.e - b.e)
  ELSE a.n * 2^(b.e - a.e) <= b.n

DAbs(a) == IF a.n < 0 THEN DNeg(a) ELSE a

\* A double with its sign, or one of the values that are not numbers.
Number(neg, mag) == [kind |-> "number", neg |-> neg /\ mag # FZero, mag |-> mag]

NaN == [kind |-> "NaN", neg |-> FALSE, mag |-> FZero]

Infinity(neg) == [kind |-> "Infinity", neg |-> neg, mag |-> FZero]

\* total / maxValue in doubles, for dyadic total and maxValue
DDiv(total, maxValue) ==
  IF maxValue.n = 0
    THEN IF total.n = 0 THEN NaN ELSE Infinity(total.n < 0)
    ELSE LET N  == IF total.n < 0 THEN -total.n ELSE total.n
             M  == IF maxValue.n < 0 THEN -maxValue.n ELSE maxValue.n
             dm == BigDivMod(ShiftLeft(BigFromInt(N), 75), M)
         IN Number((total.n < 0) # (maxValue.n < 0),
                   Round(dm.q, maxValue.e - total.e - 75, dm.r # 0))

SInt(k) == Number(k < 0, FromInt(IF k < 0 THEN -k ELSE k))

\* a + b
SAdd(a, b) ==
  IF a.kind = "NaN" \/ b.kind = "NaN" THEN NaN
  ELSE IF a.kind = "Infinity"
    THEN IF b.kind = "Infinity" /\ a.neg # b.neg THEN NaN ELSE a
  ELSE IF b.kind = "Infinity" THEN b
  ELSE IF a.neg = b.neg THEN Number(a.neg, FAdd(a.mag, b.mag))
  ELSE IF FLess(a.mag, b.mag) THEN Number(b.neg, FSub(b.mag, a.mag))
  ELSE Number(a.neg, FSub(a.mag, b.mag))

\* a * k for an integer-valued k
SMulInt(a, k) ==
  IF a.kind = "NaN" THEN NaN
  ELSE IF a.kind = "Infinity" THEN (IF k = 0 THEN NaN ELSE Infinity(a.neg # (k < 0)))
  ELSE Number(a.neg # (k < 0), FMulInt(a.mag, IF k < 0 THEN -k ELSE k))

\* a * 0.5
SHalf(a) == IF a.kind = "number" THEN Number(a.neg, FHalf(a.mag)) ELSE a

\* Float32Array store of a
SFround(a) == IF a.kind = "number" THEN Number(a.neg, Fround(a.mag)) ELSE a

\* |a| <= k for an integer-valued k >= 0
SWithin(a, k) == a.kind = "number" /\ FLeq(a.mag, FromInt(k))

\* 0 <= r <= 1
InUnitInterval(r) == r.kind = "number" /\ ~r.neg /\ FLeq(r.mag, FOne)

----------------------------------------------------------------------------
(* The mesh and the inputs of the model                                     *)

\* Capacity of the instanced mesh.  The program constructs it with 1000000
\* (grassSystem.ts:23); the model uses a small capacity so that exhausting it
\* is reachable with the blades of two vertices.
maxGrassCount == 25

GRASS_BLADES_PER_VERTEX == 150

\* Displaced vertex positions of the mesh, vertex i at vertexPositions[i + 1].
\* Integer coordinates on a sphere of radius 5, chosen so that every
\* perpendicular distance to a coordinate axis is an integer (3, 4 or 5) and
\* the double computation of markVisitedArea is exact.
vertexPositions == << <<0, 0, 5>>, <<3, 0, 4>>, <<0, 5, 0>> >>

totalVertices == Len(vertexPositions)

Vertices == 0..(totalVertices - 1)

\* Player positions: on the z axis, at its antipode, and on the x axis.
PlayerPositions == { <<0, 0, 6>>, <<0, 0, -6>>, <<6, 0, 0>> }

\* Coloring radii, negative and zero included.  From the z axis the vertices
\* are at distances 0, 3 and 5, from the x axis at 5, 4 and 5.
Radii == {-1, 0, 3, 5}

\* Vertex indices handed to uncolorVertex, one below and one above the range.
UncolorIndices == (-1)..totalVertices

originalColor == <<1, 1, 1>>

visitColor == <<0, 1, 0>>

\* the literal 0.01 of markVisitedArea
FertilityStep == FDivInts(1, 100)

\* the literal 0.1 of placeNewGrassBlades
FertilityThreshold == FDivInts(1, 10)

\* fertility + 0.01 without the clamp
IncreasedFertilityUnclamped(fertility) == FAdd(fertility, FertilityStep)

\* fertility + 0.01 starting over at 0 beyond 1.0
IncreasedFertilityWrapping(fertility) ==
  IF FLess(FOne, FAdd(fertility, FertilityStep)) THEN FZero
  ELSE FAdd(fertility, FertilityStep)

\* Math.min(1.0, fertility + 0.01)
IncreasedFertility(fertility) == FMin(FOne, FAdd(fertility, FertilityStep))

\* seq extended by the fertilities of k further increases of its last element
RECURSIVE Increases(_, _)
Increases(seq, k) ==
  IF k = 0 THEN seq
  ELSE LET prev == Increases(seq, k - 1)
       IN Append(prev, IncreasedFertility(prev[Len(prev)]))

\* the same for rounds * k increases, a round at a time
RECURSIVE IncreaseRounds(_, _, _)
IncreaseRounds(seq, rounds, k) ==
  IF rounds = 0 THEN seq
  ELSE LET prev == IncreaseRounds(seq, rounds - 1, k)
       IN IF prev = <<>> THEN prev ELSE Increases(prev, k)

\* The fertilities of a vertex that starts at 0: 0, 0.01, 0.02, ... up to 1.0,
\* which the 100th increase reaches and where the fertility stays.
FertilityOrbit == IncreaseRounds(<<FZero>>, 10, 10)

\* Fertilities of the snapshots handed to update besides the terrain's own:
\* 0.099, 0.1 and 1.0
FBelow == FDivInts(99, 1000)

SnapshotFertilities == { FBelow, FertilityThreshold, FOne }

Entry(i, f) == [index |-> i, fertility |-> f]

\* Snapshots handed to update besides the terrain's own: empty, one entry
\* below, at and above the threshold, two vertices in either order, an
\* index that occurs twice, and a vertex after one that exhausts the capacity.
Snapshots ==
  { <<>>,
    <<Entry(0, FBelow)>>,
    <<Entry(0, FertilityThreshold)>>,
    <<Entry(1, FOne)>>,
    <<Entry(0, FertilityThreshold), Entry(1, FertilityThreshold)>>,
    <<Entry(1, FertilityThreshold), Entry(0, FBelow)>>,
    <<Entry(1, FBelow), Entry(1, FertilityThreshold)>>,
    <<Entry(0, FOne), Entry(0, FertilityThreshold)>>,
    <<Entry(1, FOne), Entry(2, FertilityThreshold)>> }

\* Longest stay of a vertex inside the column that the specification Spec
\* follows: the number of fertility increases of a vertex since it was last
\* unvisited.  The specification SpecStay follows stays of any length.
MaxDwell == 3

\* The double operations of the program, tabulated once over the numbers they
\* are applied to.
Fertilities == {FertilityOrbit[n] : n \in 1..Len(FertilityOrbit)} \cup SnapshotFertilities

\* state.fertility = Math.min(1.0, state.fertility + 0.01)
increasedFertility == [f \in Fertilities |-> IncreasedFertility(f)]

\* vertex.fertility < 0.1
tooLow == [f \in Fertilities |-> FLess(f, FertilityThreshold)]

\* Math.floor(GRASS_BLADES_PER_VERTEX * vertex.fertility)
bladesFor == [f \in Fertilities |-> FFloor(FMulInt(f, GRASS_BLADES_PER_VERTEX))]

\* (visitedVertexCount / totalVertices) * 100
coverage == [visited \in 0..totalVertices |-> FMulInt(FDivInts(visited, totalVertices), 100)]

----------------------------------------------------------------------------
(* State                                                                    *)

VARIABLES
  vertexStates,        \* WorldSphere.vertexStates: Map in insertion order,
                       \* a sequence of [index, visited, fertility]
  vertexColors,        \* WorldSphere.vertexColors: one RGB triple per vertex
  visitedVertexCount,  \* WorldSphere.visitedVertexCount
  grassCount,          \* GrassSystem.grassCount
  placedGrassBlades,   \* GrassSystem.placedGrassBlades
  instanceMatrix,      \* grassMesh.instanceMatrix: slot -> vertex whose blade
                       \* was written there, or NoInstance
  meshCount,           \* grassMesh.count
  initialized,         \* GrassSystem.initialized
  isRunning,           \* Game.isRunning
  scheduled,           \* animate callbacks handed to requestAnimationFrame
                       \* for the next frame
  due,                 \* animate callbacks of the current frame not yet run
  ticksThisFrame,      \* ticks made by the callbacks of the current frame
  perm,                \* PerlinNoise.perm of WorldSphere.noise
  earlier,             \* an octaveNoise call made before: its arguments,
                       \* its result, and the number of noise calls since
  call,                \* the most recent call: its name, its argument (the
                       \* radius of markVisitedArea, the index of
                       \* uncolorVertex, the snapshot of update) and result
  homeScreen           \* the HomeScreen of index.ts: whether init() and hide()
                       \* were called, the display style of its element, the
                       \* loop handed to renderer.setAnimationLoop, its
                       \* animate callbacks waiting in requestAnimationFrame,
                       \* the render calls it made, and whether index.ts
                       \* holds a Game

terrainVars == <<vertexStates, vertexColors, visitedVertexCount>>

placerVars == <<grassCount, placedGrassBlades, instanceMatrix, meshCount, initialized>>

gameVars == <<isRunning, scheduled, due, ticksThisFrame>>

\* The name of the most recent call comes first: two calls of different
\* operations differ in it, and the arguments and results of different
\* operations, which are values of different kinds, are never compared.
vars == <<call.op, vertexStates, vertexColors, visitedVertexCount, grassCount,
          placedGrassBlades, instanceMatrix, meshCount, initialized,
          isRunning, scheduled, due, ticksThisFrame, perm, earlier, call,
          homeScreen>>

noiseVars == <<perm, earlier>>

homeVars == <<homeScreen>>

NoInstance == -1

NoValue == "none"

\* a % b of JavaScript on integers, b > 0: the remainder has the sign of a
Remainder(a, b) == IF a >= 0 THEN a % b ELSE -((-a) % b)

\* the table the constructor of PerlinNoise builds:
\* simpleSeed = Math.floor(seed) % 256,
\* perm[i] = perm[i + 256] = (i + simpleSeed) % 256 for i < 256
permutationFor(seed) ==
  [i \in 0..511 |-> Remainder((i % 256) + Remainder(DFloor(seed), 256), 256)]

\* Seeds of the noise, Math.random() * 1000 in the program: 0 and 300.75
Seeds == {DInt(0), Dy(1203, 2)}

NoCall == [arg |-> <<>>, ret |-> NaN, since |-> 0]

\* the HomeScreen after new HomeScreen(): the element is shown, nothing is
\* handed to requestAnimationFrame, index.ts holds no Game
NewHomeScreen ==
  [initialized |-> FALSE, hidden |-> FALSE, display |-> "block",
   animationLoop |-> "null", pending |-> 0, renders |-> 0, game |-> FALSE]

\* the HomeScreen when the handler of the start button makes the Game, on a
\* click right after the page was loaded: init() has rendered once and
\* handed animate to requestAnimationFrame, hide() was called
AfterFirstClick ==
  [initialized |-> TRUE, hidden |-> TRUE, display |-> "none",
   animationLoop |-> "null", pending |-> 1, renders |-> 1, game |-> TRUE]

\* the state after new Game(), the noise of the terrain built from seed
Constructed(seed) ==
  /\ vertexStates = <<>>
  /\ vertexColors = [i \in Vertices |-> originalColor]
  /\ visitedVertexCount = 0
  /\ grassCount = 0
  /\ placedGrassBlades = {}
  /\ instanceMatrix = [k \in 0..(maxGrassCount - 1) |-> NoInstance]
  /\ meshCount = maxGrassCount
  /\ initialized = TRUE
  /\ isRunning = FALSE
  /\ scheduled = 0
  /\ due = 0
  /\ ticksThisFrame = 0
  /\ perm = permutationFor(seed)
  /\ earlier = NoCall
  /\ call = [op |-> "constructor", arg |-> NoValue, ret |-> NoValue]
  /\ homeScreen = AfterFirstClick

\* The seed reaches nothing but the noise: the specifications of the terrain
\* and of the placer start from one seed.
Init == Constructed(DInt(0))

----------------------------------------------------------------------------
(* WorldSphere                                                              *)

HasState(states, i) == \E k \in 1..Len(states) : states[k].index = i

StateAt(states, i) == CHOOSE k \in 1..Len(states) : states[k].index = i

\* vertexStates.get(i), an absent entry read as unvisited with fertility 0
GetState(states, i) ==
  IF HasState(states, i) THEN states[StateAt(states, i)]
  ELSE [index |-> i, visited |-> FALSE, fertility |-> FZero]

Dot(a, b) == a[1] * b[1] + a[2] * b[2] + a[3] * b[3]

ISqrt(n) == CHOOSE r \in 0..n : r * r <= n /\ n < (r + 1) * (r + 1)

Length(a) == ISqrt(Dot(a, a))

\* Vector3.normalize: divideScalar(length() || 1)
Normalize(a) == LET l == Length(a)
                IN IF l = 0 THEN a ELSE [c \in 1..3 |-> a[c] \div l]

\* distance of vertex position v to the half line from the center along
\* centerToPlayer, which ends at the center
distanceToRay(v, centerToPlayer) ==
  LET projectionLength    == Dot(v, centerToPlayer)
      projectionPoint     == [c \in 1..3 |-> IF projectionLength < 0 THEN 0
                                             ELSE centerToPlayer[c] * projectionLength]
      perpendicularVector == [c \in 1..3 |-> v[c] - projectionPoint[c]]
  IN Length(perpendicularVector)

\* distance of vertex position v to the line from the center along centerToPlayer
distanceToLine(v, centerToPlayer) ==
  LET projectionLength    == Dot(v, centerToPlayer)
      projectionPoint     == [c \in 1..3 |-> centerToPlayer[c] * projectionLength]
      perpendicularVector == [c \in 1..3 |-> v[c] - projectionPoint[c]]
  IN Length(perpendicularVector)

\* the states with an entry for vertex i: vertexStates.set(i, state) if absent
withState(states, i) ==
  IF HasState(states, i) THEN states
  ELSE Append(states, [index |-> i, visited |-> FALSE, fertility |-> FZero])

\* the writes of a loop body that raises the fertility on the first entry only
writeVertexFirstEntryOnly(i, st, states, k, fresh) ==
  [states |-> [states EXCEPT ![k] =
                 [index     |-> i,
                  visited   |-> TRUE,
                  fertility |-> IF fresh THEN increasedFertility[states[k].fertility]
                                ELSE states[k].fertility]],
   colors |-> IF fresh THEN [st.colors EXCEPT ![i] = visitColor] ELSE st.colors,
   count  |-> IF fresh THEN st.count + 1 ELSE st.count,
   newlyVisited |-> IF fresh THEN st.newlyVisited + 1 ELSE st.newlyVisited]

\* the writes of the loop body for vertex i, whose entry is at place k of
\* the states and was visited or not (fresh)
writeVertex(i, st, states, k, fresh) ==
  [states |-> [states EXCEPT ![k] =
                 [index     |-> i,
                  visited   |-> TRUE,
                  fertility |-> increasedFertility[states[k].fertility]]],
   colors |-> IF fresh THEN [st.colors EXCEPT ![i] = visitColor] ELSE st.colors,
   count  |-> IF fresh THEN st.count + 1 ELSE st.count,
   newlyVisited |-> IF fresh THEN st.newlyVisited + 1 ELSE st.newlyVisited]

\* the body of the vertex loop of markVisitedArea for a vertex inside the cylinder
markVertex(i, st) ==
  writeVertex(i, st, withState(st.states, i), StateAt(withState(st.states, i), i),
              ~GetState(st.states, i).visited)

\* a vertex loop that un-marks the vertices outside the cylinder
RECURSIVE markLoopUnmarking(_, _, _, _)
markLoopUnmarking(i, st, centerToPlayer, coloringRadius) ==
  IF i >= totalVertices THEN st
  ELSE markLoopUnmarking(i + 1,
         IF distanceToLine(vertexPositions[i + 1], centerToPlayer) < coloringRadius
         THEN markVertex(i, st)
         ELSE IF HasState(st.states, i) /\ GetState(st.states, i).visited
              THEN [st EXCEPT !.states[StateAt(st.states, i)].visited = FALSE,
                              !.colors[i] = originalColor,
                              !.count = st.count - 1]
              ELSE st,
         centerToPlayer, coloringRadius)

\* a vertex loop that takes in the vertices at exactly the radius
RECURSIVE markLoopInclusive(_, _, _, _)
markLoopInclusive(i, st, centerToPlayer, coloringRadius) ==
  IF i >= totalVertices THEN st
  ELSE markLoopInclusive(i + 1,
         IF distanceToLine(vertexPositions[i + 1], centerToPlayer) <= coloringRadius
         THEN markVertex(i, st) ELSE st,
         centerToPlayer, coloringRadius)

\* The vertex loop of markVisitedArea from vertex i on.  The state st of the
\* loop is evaluated once and handed on as a value.
RECURSIVE markLoop(_, _, _, _)
RECURSIVE markStep(_, _, _, _)
markStep(i, st, centerToPlayer, coloringRadius) ==
  IF i >= totalVertices THEN st
  ELSE markLoop(i + 1,
                IF distanceToLine(vertexPositions[i + 1], centerToPlayer) < coloringRadius
                THEN markVertex(i, st) ELSE st,
                centerToPlayer, coloringRadius)

\* the vertex loop of markVisitedArea
markLoop(i, st, centerToPlayer, coloringRadius) ==
  CHOOSE after \in {markStep(i, s, centerToPlayer, coloringRadius) : s \in {st}} : TRUE

\* the end of markVisitedArea: the state the loop leaves and the value returned
storeMarks(st, playerPosition, coloringRadius) ==
  /\ vertexStates' = st.states
  /\ vertexColors' = st.colors
  /\ visitedVertexCount' = st.count
  /\ call' = [op  |-> "markVisitedArea",
              arg |-> coloringRadius,
              ret |-> coverage[st.count],
              position |-> playerPosition]

markVisitedArea(playerPosition, coloringRadius) ==
  /\ \E centerToPlayer \in {Normalize(playerPosition)} :
       \E st \in {markLoop(0,
                           [states |-> vertexStates, colors |-> vertexColors,
                            count |-> visitedVertexCount, newlyVisited |-> 0],
                           centerToPlayer, coloringRadius)} :
         storeMarks(st, playerPosition, coloringRadius)
  /\ UNCHANGED <<placerVars, gameVars, noiseVars, homeVars>>

getCoveragePercentage ==
  /\ call' = [op  |-> "getCoveragePercentage",
              arg |-> NoValue,
              ret |-> coverage[visitedVertexCount]]
  /\ UNCHANGED <<terrainVars, placerVars, gameVars, noiseVars, homeVars>>

\* an uncolorVertex that also lets the vertex be seeded again
uncolorVertexForgettingGrass(vertexIndex) ==
  /\ IF HasState(vertexStates, vertexIndex) /\ GetState(vertexStates, vertexIndex).visited
     THEN /\ vertexStates' = [vertexStates EXCEPT ![StateAt(vertexStates, vertexIndex)] =
                                [index |-> vertexIndex, visited |-> FALSE, fertility |-> FZero]]
          /\ visitedVertexCount' = visitedVertexCount - 1
          /\ vertexColors' = [vertexColors EXCEPT ![vertexIndex] = originalColor]
          /\ placedGrassBlades' = placedGrassBlades \ {vertexIndex}
     ELSE UNCHANGED <<terrainVars, placedGrassBlades>>
  /\ call' = [op |-> "uncolorVertex", arg |-> vertexIndex, ret |-> NoValue]
  /\ UNCHANGED <<grassCount, instanceMatrix, meshCount, initialized, gameVars, noiseVars, homeVars>>

\* an uncolorVertex that leaves the visited count as it is
uncolorVertexKeepingCount(vertexIndex) ==
  /\ IF HasState(vertexStates, vertexIndex) /\ GetState(vertexStates, vertexIndex).visited
     THEN /\ vertexStates' = [vertexStates EXCEPT ![StateAt(vertexStates, vertexIndex)] =
                                [index |-> vertexIndex, visited |-> FALSE, fertility |-> FZero]]
          /\ vertexColors' = [vertexColors EXCEPT ![vertexIndex] = originalColor]
          /\ UNCHANGED visitedVertexCount
     ELSE UNCHANGED terrainVars
  /\ call' = [op |-> "uncolorVertex", arg |-> vertexIndex, ret |-> NoValue]
  /\ UNCHANGED <<placerVars, gameVars, noiseVars, homeVars>>

\* an uncolorVertex that leaves the fertility as it is
uncolorVertexKeepingFertility(vertexIndex) ==
  /\ IF HasState(vertexStates, vertexIndex) /\ GetState(vertexStates, vertexIndex).visited
     THEN /\ vertexStates' = [vertexStates EXCEPT ![StateAt(vertexStates, vertexIndex)].visited = FALSE]
          /\ visitedVertexCount' = visitedVertexCount - 1
          /\ vertexColors' = [vertexColors EXCEPT ![vertexIndex] = originalColor]
     ELSE UNCHANGED terrainVars
  /\ call' = [op |-> "uncolorVertex", arg |-> vertexIndex, ret |-> NoValue]
  /\ UNCHANGED <<placerVars, gameVars, noiseVars, homeVars>>

\* an uncolorVertex that does not look at the visited flag of the entry
uncolorVertexUnguarded(vertexIndex) ==
  /\ IF HasState(vertexStates, vertexIndex)
     THEN /\ vertexStates' = [vertexStates EXCEPT ![StateAt(vertexStates, vertexIndex)] =
                                [index |-> vertexIndex, visited |-> FALSE, fertility |-> FZero]]
          /\ visitedVertexCount' = visitedVertexCount - 1
          /\ vertexColors' = [vertexColors EXCEPT ![vertexIndex] = originalColor]
     ELSE UNCHANGED terrainVars
  /\ call' = [op |-> "uncolorVertex", arg |-> vertexIndex, ret |-> NoValue]
  /\ UNCHANGED <<placerVars, gameVars, noiseVars, homeVars>>

\* an uncolorVertex that leaves the color of the vertex as it is
uncolorVertexKeepingColor(vertexIndex) ==
  /\ IF HasState(vertexStates, vertexIndex) /\ GetState(vertexStates, vertexIndex).visited
     THEN /\ vertexStates' = [vertexStates EXCEPT ![StateAt(vertexStates, vertexIndex)] =
                                [index |-> vertexIndex, visited |-> FALSE, fertility |-> FZero]]
          /\ visitedVertexCount' = visitedVertexCount - 1
          /\ vertexColors' = vertexColors
     ELSE UNCHANGED terrainVars
  /\ call' = [op |-> "uncolorVertex", arg |-> vertexIndex, ret |-> NoValue]
  /\ UNCHANGED <<placerVars, gameVars, noiseVars, homeVars>>

uncolorVertex(vertexIndex) ==
  /\ IF HasState(vertexStates, vertexIndex) /\ GetState(vertexStates, vertexIndex).visited
     THEN /\ vertexStates' = [vertexStates EXCEPT ![StateAt(vertexStates, vertexIndex)] =
                                [index |-> vertexIndex, visited |-> FALSE, fertility |-> FZero]]
          /\ visitedVertexCount' = visitedVertexCount - 1
          /\ vertexColors' = [vertexColors EXCEPT ![vertexIndex] = originalColor]
     ELSE UNCHANGED terrainVars
  /\ call' = [op |-> "uncolorVertex", arg |-> vertexIndex, ret |-> NoValue]
  /\ UNCHANGED <<placerVars, gameVars, noiseVars, homeVars>>

IsVisited(state) == state.visited

\* an array of all the entries of the map, visited or not
FertileVerticesOfAll(states) ==
  [k \in 1..Len(states) |-> [index |-> states[k].index, fertility |-> states[k].fertility]]

\* the array built by getFertileVertices: the visited entries in map order
FertileVerticesOf(states) ==
  LET visitedStates == SelectSeq(states, IsVisited)
  IN [k \in 1..Len(visitedStates) |->
        [index |-> visitedStates[k].index, fertility |-> visitedStates[k].fertility]]

getFertileVertices ==
  /\ call' = [op  |-> "getFertileVertices",
              arg |-> NoValue,
              ret |-> FertileVerticesOf(vertexStates)]
  /\ UNCHANGED <<terrainVars, placerVars, gameVars, noiseVars, homeVars>>

----------------------------------------------------------------------------
(* GrassSystem                                                              *)

\* The blade loop of one vertex from blade i on: writes the slots
\* grassCount + newBlades while blades remain and the capacity is not reached.
\* A transform is modelled by the vertex it was generated for (its random
\* offset, rotation and scale are not part of the model).  The state st of the
\* loop is evaluated once and handed on as a value.
RECURSIVE bladeLoop(_, _, _, _, _)
RECURSIVE bladeStep(_, _, _, _, _)
RECURSIVE bladeStepOffByOne(_, _, _, _, _)

\* a step of the blade loop with the capacity test off by one
bladeStepOffByOne(i, bladesForVertex, vertexIndex, count, st) ==
  IF i < bladesForVertex /\ count + st.newBlades <= maxGrassCount
  THEN bladeLoop(i + 1, bladesForVertex, vertexIndex, count,
                 [st EXCEPT !.matrix[count + st.newBlades] = vertexIndex,
                            !.newBlades = st.newBlades + 1])
  ELSE st

bladeStep(i, bladesForVertex, vertexIndex, count, st) ==
  IF i < bladesForVertex /\ count + st.newBlades < maxGrassCount
  THEN bladeLoop(i + 1, bladesForVertex, vertexIndex, count,
                 [st EXCEPT !.matrix[count + st.newBlades] = vertexIndex,
                            !.newBlades = st.newBlades + 1])
  ELSE st

\* the blade loop of one vertex
bladeLoop(i, bladesForVertex, vertexIndex, count, st) ==
  CHOOSE after \in {bladeStep(i, bladesForVertex, vertexIndex, count, s) : s \in {st}} : TRUE

\* a seeding that adds the vertex to placedGrassBlades after the blade loop,
\* and only if the loop generated a blade
seedVertexMarkingAfter(vertex, count, st) ==
  LET after == bladeLoop(0, bladesFor[vertex.fertility], vertex.index, count, st)
  IN IF after.newBlades > st.newBlades
     THEN [after EXCEPT !.placed = after.placed \cup {vertex.index}]
     ELSE after

\* the blades of a vertex that passed the tests: the vertex is added to
\* placedGrassBlades, then its blades are generated
seedVertex(vertex, count, st) ==
  bladeLoop(0, bladesFor[vertex.fertility], vertex.index, count,
            [st EXCEPT !.placed = st.placed \cup {vertex.index}])

\* the body of the snapshot loop without the fertility threshold
placeVertexNoThreshold(vertex, count, st) ==
  IF vertex.index \in st.placed THEN st
  ELSE seedVertex(vertex, count, st)

\* the body of the snapshot loop without the test of placedGrassBlades
placeVertexUnguarded(vertex, count, st) ==
  IF tooLow[vertex.fertility] THEN st
  ELSE seedVertex(vertex, count, st)

\* the body of the loop of placeNewGrassBlades over the snapshot
placeVertex(vertex, count, st) ==
  IF tooLow[vertex.fertility] THEN st
  ELSE IF vertex.index \in st.placed THEN st
  ELSE seedVertex(vertex, count, st)

\* the loop of placeNewGrassBlades over the snapshot
RECURSIVE placeLoop(_, _, _)
placeLoop(fertileVertices, count, st) ==
  IF fertileVertices = <<>> THEN st
  ELSE placeLoop(Tail(fertileVertices), count, placeVertex(Head(fertileVertices), count, st))

\* the loop of placeNewGrassBlades from the given state of the placer
placeNewGrassBlades(fertileVertices, count, placed, matrix) ==
  placeLoop(fertileVertices, count, [placed |-> placed, matrix |-> matrix, newBlades |-> 0])

\* an end of placeNewGrassBlades that assigns the count where it should add
storeBladesRestarting(st) ==
  /\ placedGrassBlades' = st.placed
  /\ instanceMatrix' = st.matrix
  /\ grassCount' = IF st.newBlades > 0 THEN st.newBlades ELSE grassCount
  /\ meshCount' = IF st.newBlades > 0 THEN st.newBlades ELSE meshCount

\* an end of placeNewGrassBlades that never publishes the count to the mesh
storeBladesUnpublished(st) ==
  /\ placedGrassBlades' = st.placed
  /\ instanceMatrix' = st.matrix
  /\ grassCount' = grassCount + st.newBlades
  /\ meshCount' = meshCount

\* the end of placeNewGrassBlades: the state the loop leaves, with the count
\* published to the mesh if blades were added
storeBlades(st) ==
  /\ placedGrassBlades' = st.placed
  /\ instanceMatrix' = st.matrix
  /\ grassCount' = grassCount + st.newBlades
  /\ meshCount' = IF st.newBlades > 0 THEN grassCount + st.newBlades ELSE meshCount

\* GrassSystem.update; the shader uniforms it refreshes are not part of the model
update(fertileVertices) ==
  /\ IF ~initialized THEN UNCHANGED <<grassCount, placedGrassBlades, instanceMatrix, meshCount>>
     ELSE storeBlades(placeNewGrassBlades(fertileVertices, grassCount, placedGrassBlades,
                                          instanceMatrix))
  /\ call' = [op |-> "update", arg |-> fertileVertices, ret |-> NoValue]
  /\ UNCHANGED <<terrainVars, initialized, gameVars, noiseVars, homeVars>>

----------------------------------------------------------------------------
(* Game: the tick of the animation loop                                     *)

\* Player.getColoringRadius(): the radius of the column the player colors,
\* 2.2 in the program on a mesh of radius 40; on the mesh of the model the
\* radius 5 takes in both vertices 0 and 1 from the z axis and vertex 1 alone
\* from the x axis.
playerColoringRadius == 5

\* const fertileVertices = this.worldSphere.getFertileVertices(), taken after
\* the marking of the tick
tickSnapshot(st) == FertileVerticesOf(st.states)

\* the writes of one tick: those of markVisitedArea, then those of update on
\* the snapshot
tickStores(st, fertileVertices) ==
  /\ vertexStates' = st.states
  /\ vertexColors' = st.colors
  /\ visitedVertexCount' = st.count
  /\ IF ~initialized THEN UNCHANGED <<grassCount, placedGrassBlades, instanceMatrix, meshCount>>
     ELSE storeBlades(placeNewGrassBlades(fertileVertices, grassCount, placedGrassBlades,
                                          instanceMatrix))
  /\ call' = [op |-> "update", arg |-> fertileVertices, ret |-> NoValue]
  /\ UNCHANGED initialized

\* the terrain and placer part of Game.animate: markVisitedArea at the
\* player's position, getFertileVertices, update
tick(playerPosition) ==
  \E centerToPlayer \in {Normalize(playerPosition)} :
    \E st \in {markLoop(0,
                        [states |-> vertexStates, colors |-> vertexColors,
                         count |-> visitedVertexCount, newlyVisited |-> 0],
                        centerToPlayer, playerColoringRadius)} :
      \E fertileVertices \in {tickSnapshot(st)} : tickStores(st, fertileVertices)

\* the body of Game.animate, running being the value of isRunning it reads:
\* if (!this.isRunning) return; requestAnimationFrame(this.animate.bind(this));
\* then the tick at the player's position
animateBody(running, playerPosition) ==
  IF running
    THEN /\ scheduled' = scheduled + 1
         /\ tick(playerPosition)
    ELSE UNCHANGED <<scheduled, terrainVars, placerVars, call>>

\* the writes of Game.start(): this.isRunning = true; this.animate()
startWrites(playerPosition) ==
  /\ isRunning' = TRUE
  /\ animateBody(TRUE, playerPosition)
  /\ UNCHANGED <<due, ticksThisFrame, noiseVars>>

\* Game.start()
start(playerPosition) ==
  /\ startWrites(playerPosition)
  /\ UNCHANGED homeVars

\* Game.stop(): this.isRunning = false; this.grassSystem.dispose(), which
\* releases the geometry and the material and detaches the mesh, and leaves
\* the counters, the placed set and the instance matrix as they are
stop ==
  /\ isRunning' = FALSE
  /\ call' = [op |-> "dispose", arg |-> NoValue, ret |-> NoValue]
  /\ UNCHANGED <<terrainVars, placerVars, scheduled, due, ticksThisFrame, noiseVars, homeVars>>

\* The browser begins a frame: the callbacks handed to requestAnimationFrame
\* since the last frame began are the ones this frame runs; a callback
\* registered while the frame runs waits for the next one.
frame ==
  /\ due = 0
  /\ scheduled > 0
  /\ due' = scheduled
  /\ scheduled' = 0
  /\ ticksThisFrame' = 0
  /\ UNCHANGED <<terrainVars, placerVars, isRunning, call, noiseVars, homeVars>>

\* The browser runs one callback of the current frame: Game.animate.
animate(playerPosition) ==
  /\ due > 0
  /\ due' = due - 1
  /\ animateBody(isRunning, playerPosition)
  /\ ticksThisFrame' = IF isRunning THEN ticksThisFrame + 1 ELSE ticksThisFrame
  /\ UNCHANGED <<isRunning, noiseVars, homeVars>>

----------------------------------------------------------------------------
(* HomeScreen and the start button                                          *)

\* the largest number of render calls of the HomeScreen that are followed
MaxRenders == 3

\* the body of HomeScreen.animate: requestAnimationFrame(this.animate.bind(this)),
\* the rotation of the sphere, this.renderer.render(this.scene, this.camera)
homeAnimateBody(home) ==
  [home EXCEPT !.pending = home.pending + 1, !.renders = home.renders + 1]

\* HomeScreen.init(): the renderer and the sphere are set up, then this.animate()
homeInit ==
  /\ ~homeScreen.initialized
  /\ homeScreen' = homeAnimateBody([homeScreen EXCEPT !.initialized = TRUE])
  /\ UNCHANGED <<terrainVars, placerVars, gameVars, noiseVars, call>>

\* The browser runs a callback the HomeScreen handed to requestAnimationFrame:
\* HomeScreen.animate.
homeAnimate ==
  /\ homeScreen.pending > 0
  /\ homeScreen' = homeAnimateBody([homeScreen EXCEPT !.pending = homeScreen.pending - 1])
  /\ UNCHANGED <<terrainVars, placerVars, gameVars, noiseVars, call>>

\* HomeScreen.hide(): this.homeScreen.style.display = 'none';
\* this.renderer.setAnimationLoop(null), which clears the loop of the
\* renderer, a loop that animate does not use
hide(home) ==
  [home EXCEPT !.hidden = TRUE, !.display = "none", !.animationLoop = "null"]

\* the click handler of the start button: homeScreen.hide();
\* if (!game) game = new Game(); game.start().  The variables of the Game
\* hold the values new Game() gives them from the beginning.
startButtonClick(playerPosition) ==
  /\ homeScreen.initialized
  /\ homeScreen' = [hide(homeScreen) EXCEPT !.game = TRUE]
  /\ startWrites(playerPosition)

----------------------------------------------------------------------------
(* GrassSystem: the tangent frame of a blade                                *)

\* A vector v / sqrt(sq) with integer coordinates v and an integer sq > 0:
\* lengths of cross products are square roots, kept exact this way.
Vec(v, sq) == [v |-> v, sq |-> sq]

\* the unit vector (a, b, c) / d of an integer quadruple a^2 + b^2 + c^2 = d^2
UnitVector(a, b, c, d) == Vec(<<a, b, c>>, d * d)

\* Vector3.crossVectors(a, b)
crossVectors(a, b) ==
  Vec(<< a.v[2] * b.v[3] - a.v[3] * b.v[2],
         a.v[3] * b.v[1] - a.v[1] * b.v[3],
         a.v[1] * b.v[2] - a.v[2] * b.v[1] >>,
      a.sq * b.sq)

\* Vector3.normalize(): divideScalar(length() || 1)
normalize(a) == IF Dot(a.v, a.v) = 0 THEN a ELSE Vec(a.v, Dot(a.v, a.v))

AbsInt(n) == IF n < 0 THEN -n ELSE n

\* Math.abs(normal.y) < 0.99, the quotient and the literal as doubles
awayFromY(normal) ==
  FLess(FDivInts(AbsInt(normal.v[2]), ISqrt(normal.sq)), FDivInts(99, 100))

\* a choice of the seed axis without the test of normal.y
seedAxisAlwaysY(normal) == Vec(<<0, 1, 0>>, 1)

\* const tangent = new THREE.Vector3(1, 0, 0);
\* if (Math.abs(normal.y) < 0.99) tangent.set(0, 1, 0)
seedAxis(normal) ==
  IF awayFromY(normal) THEN Vec(<<0, 1, 0>>, 1) ELSE Vec(<<1, 0, 0>>, 1)

\* the tangent space of a vertex: normal, tangent and bitangent, with the
\* seed axis the tangent was made from
tangentSpace(vertexNormal) ==
  LET normal    == normalize(vertexNormal)
      seed      == seedAxis(normal)
      tangent   == normalize(crossVectors(seed, normal))
      bitangent == crossVectors(normal, tangent)
  IN [seed |-> seed, normal |-> normal, tangent |-> tangent, bitangent |-> bitangent]

\* the tangent space computed for a blade of a vertex with the given normal
tangentFrame(vertexNormal) ==
  /\ call' = [op |-> "tangentSpace", arg |-> vertexNormal, ret |-> tangentSpace(vertexNormal)]
  /\ UNCHANGED <<terrainVars, placerVars, gameVars, noiseVars, homeVars>>

----------------------------------------------------------------------------
(* PerlinNoise                                                              *)

\* a + t * (b - a)
lerp(a, b, t) == DAdd(a, DMul(t, DSub(b, a)))

\* t * t * t * (t * (t * 6 - 15) + 10)
fade(t) ==
  DMul(DMul(DMul(t, t), t),
       DAdd(DMul(t, DSub(DMul(t, DInt(6)), DInt(15))), DInt(10)))

grad(hash, x, y, z) ==
  LET h == hash % 16
      u == IF h < 8 THEN x ELSE y
      v == IF h < 4 THEN y ELSE IF h = 12 \/ h = 14 THEN x ELSE z
  IN DAdd(IF h % 2 = 0 THEN u ELSE DNeg(u),
          IF (h \div 2) % 2 = 0 THEN v ELSE DNeg(v))

\* A value read from the table or computed from one: {n} for the number n,
\* {} for undefined and for NaN (undefined + n is NaN, perm[NaN] is undefined).
\* this.perm[i]
entry(table, i) ==
  IF i = {} THEN {}
  ELSE LET n == CHOOSE k \in i : TRUE
       IN IF n \in DOMAIN table THEN {table[n]} ELSE {}

\* a + n
plus(a, n) == {k + n : k \in a}

\* the integer the operator & makes of its operand: 0 of undefined
ToInt32(a) == IF a = {} THEN 0 ELSE CHOOSE k \in a : TRUE

\* the hash coordinates of the corners of the cube (X, Y, Z)
corners(table, X, Y, Z) ==
  LET hashA == plus(entry(table, {X}), Y)
      hashB == plus(entry(table, {X + 1}), Y)
  IN [A  |-> hashA,
      AA |-> plus(entry(table, hashA), Z),
      AB |-> plus(entry(table, plus(hashA, 1)), Z),
      B  |-> hashB,
      BA |-> plus(entry(table, hashB), Z),
      BB |-> plus(entry(table, plus(hashB, 1)), Z)]

\* the hash of a corner, as grad reads it
hash(table, i) == ToInt32(entry(table, i))

\* the blend of the eight corners of the cube (X, Y, Z) at the relative
\* position (x, y, z)
blendOf(table, c, x, y, z, x1, y1, z1, u, v, w) ==
  lerp(lerp(lerp(grad(hash(table, c.AA), x, y, z), grad(hash(table, c.BA), x1, y, z), u),
            lerp(grad(hash(table, c.AB), x, y1, z), grad(hash(table, c.BB), x1, y1, z), u),
            v),
       lerp(lerp(grad(hash(table, plus(c.AA, 1)), x, y, z1),
                 grad(hash(table, plus(c.BA, 1)), x1, y, z1), u),
            lerp(grad(hash(table, plus(c.AB, 1)), x, y1, z1),
                 grad(hash(table, plus(c.BB, 1)), x1, y1, z1), u),
            v),
       w)

blend(table, X, Y, Z, x, y, z) ==
  blendOf(table, corners(table, X, Y, Z), x, y, z,
          DSub(x, DOne), DSub(y, DOne), DSub(z, DOne), fade(x), fade(y), fade(z))

\* PerlinNoise.noise(x, y, z): Math.floor(x) & 255 is Math.floor(x) % 256
\* with the sign of the divisor
noise(table, x, y, z) ==
  blend(table, DFloor(x) % 256, DFloor(y) % 256, DFloor(z) % 256,
        DSub(x, DInt(DFloor(x))), DSub(y, DInt(DFloor(y))), DSub(z, DInt(DFloor(z))))

\* PerlinNoise.get(x, y, z): (this.noise(x, y, z) + 1) * 0.5
get(table, x, y, z) == DMul(DAdd(noise(table, x, y, z), DOne), Dy(1, 1))

\* the loop of octaveNoise from octave i on, st holding the values of its
\* variables
RECURSIVE octaveLoop(_, _, _, _, _, _, _, _)
RECURSIVE octaveStep(_, _, _, _, _, _, _, _)
octaveStep(table, x, y, z, i, octaves, persistence, st) ==
  IF i < octaves
    THEN octaveLoop(table, x, y, z, i + 1, octaves, persistence,
           [total     |-> DAdd(st.total,
                               DMul(noise(table, DMul(x, st.frequency),
                                          DMul(y, st.frequency),
                                          DMul(z, st.frequency)),
                                    st.amplitude)),
            maxValue  |-> DAdd(st.maxValue, st.amplitude),
            amplitude |-> DMul(st.amplitude, persistence),
            frequency |-> DMul(st.frequency, DInt(2))])
    ELSE st

octaveLoop(table, x, y, z, i, octaves, persistence, st) ==
  CHOOSE after \in {octaveStep(table, x, y, z, i, octaves, persistence, s) : s \in {st}} : TRUE

octaveSums(table, x, y, z, octaves, persistence) ==
  octaveLoop(table, x, y, z, 0, octaves, persistence,
             [total |-> DZero, frequency |-> DOne, amplitude |-> DOne, maxValue |-> DZero])

\* return (total / maxValue + 1) * 0.5
octaveResult(st) == SHalf(SAdd(DDiv(st.total, st.maxValue), SInt(1)))

\* PerlinNoise.octaveNoise(x, y, z, octaves, persistence)
octaveNoise(table, x, y, z, octaves, persistence) ==
  octaveResult(octaveSums(table, x, y, z, octaves, persistence))

\* the largest number of calls counted since the call kept in earlier
MaxSince == 2

\* the call kept in earlier after one more call
afterCall(e) ==
  IF e.since < MaxSince /\ e.arg # <<>> THEN [e EXCEPT !.since = e.since + 1] ELSE e

\* a call of noise(x, y, z) on the noise of the terrain
sampleNoise(x, y, z) ==
  /\ call' = [op |-> "noise", arg |-> <<x, y, z>>, ret |-> noise(perm, x, y, z)]
  /\ earlier' = afterCall(earlier)
  /\ UNCHANGED <<terrainVars, placerVars, gameVars, perm, homeVars>>

\* a call of get(x, y, z)
sampleGet(x, y, z) ==
  /\ call' = [op |-> "get", arg |-> <<x, y, z>>, ret |-> get(perm, x, y, z)]
  /\ earlier' = afterCall(earlier)
  /\ UNCHANGED <<terrainVars, placerVars, gameVars, perm, homeVars>>

\* the call of octaveNoise whose result is ret, kept for a later comparison
\* or not
storeOctaves(arg, ret) ==
  /\ call' = [op |-> "octaveNoise", arg |-> arg, ret |-> ret]
  /\ earlier' \in {afterCall(earlier), [arg |-> arg, ret |-> ret, since |-> 0]}

\* a call of octaveNoise that builds a new table from the first entry of the
\* old one
sampleOctavesReseeding(x, y, z, octaves, persistence) ==
  /\ \E ret \in {octaveNoise(perm, x, y, z, octaves, persistence)} :
       storeOctaves(<<x, y, z, octaves, persistence>>, ret)
  /\ perm' = permutationFor(DInt(perm[0] + 1))
  /\ UNCHANGED <<terrainVars, placerVars, gameVars, homeVars>>

\* a call of octaveNoise(x, y, z, octaves, persistence)
sampleOctaves(x, y, z, octaves, persistence) ==
  /\ \E ret \in {octaveNoise(perm, x, y, z, octaves, persistence)} :
       storeOctaves(<<x, y, z, octaves, persistence>>, ret)
  /\ UNCHANGED <<terrainVars, placerVars, gameVars, perm, homeVars>>

\* (noiseValue * 2) * this.noiseStrength, without the shift to [-1, 1]
displacementUnshifted(noiseValue, noiseStrength) ==
  SMulInt(SMulInt(noiseValue, 2), noiseStrength)

\* (noiseValue * 2 - 1) * this.noiseStrength
displacement(noiseValue, noiseStrength) ==
  SMulInt(SAdd(SMulInt(noiseValue, 2), SInt(-1)), noiseStrength)

\* the body of the loop of applyNoiseToGeometry for the vertex at position:
\* its new position, as the Float32Array of the geometry stores it
displaced(table, position, originalRadius, noiseScale, noiseStrength) ==
  LET direction  == Normalize(position)
      noiseValue == octaveNoise(table, DMul(DInt(direction[1]), noiseScale),
                                DMul(DInt(direction[2]), noiseScale),
                                DMul(DInt(direction[3]), noiseScale),
                                4, Dy(1, 1))
      newRadius  == SAdd(SInt(originalRadius), displacement(noiseValue, noiseStrength))
  IN [c \in 1..3 |-> SFround(SMulInt(newRadius, direction[c]))]

\* WorldSphere.applyNoiseToGeometry on the vertices positions, the original
\* radius taken from the first of them
applyNoiseToGeometry(positions, noiseScale, noiseStrength) ==
  /\ call' = [op  |-> "applyNoiseToGeometry",
              arg |-> [positions |-> positions, noiseScale |-> noiseScale,
                       noiseStrength |-> noiseStrength],
              ret |-> [i \in 1..Len(positions) |->
                        displaced(perm, positions[i], Length(positions[1]),
                                  noiseScale, noiseStrength)]]
  /\ earlier' = afterCall(earlier)
  /\ UNCHANGED <<terrainVars, placerVars, gameVars, perm, homeVars>>

----------------------------------------------------------------------------
(* Specification                                                            *)

\* the fertilities of a vertex after at most MaxDwell increases
ShortDwell == {FertilityOrbit[n] : n \in 1..(MaxDwell + 1)}

\* markVisitedArea, followed while no vertex stays longer than MaxDwell
MarkStep ==
  /\ \E p \in PlayerPositions, r \in Radii : markVisitedArea(p, r)
  /\ \A k \in 1..Len(vertexStates') : vertexStates'[k].fertility \in ShortDwell

UncolorStep == \E i \in UncolorIndices : uncolorVertex(i)

\* update on a snapshot taken from the terrain in its current state
UpdateOwnStep == update(FertileVerticesOf(vertexStates))

\* update on an arbitrary snapshot
UpdateAnyStep == \E fv \in Snapshots : update(fv)

Next ==
  \/ MarkStep
  \/ UncolorStep
  \/ getCoveragePercentage
  \/ getFertileVertices
  \/ UpdateOwnStep
  \/ UpdateAnyStep

Spec == Init /\ [][Next]_vars

\* The player stays on the z axis for as long as it takes: the terrain alone,
\* with no bound on the stay of a vertex inside the column.
StayStep == \E r \in {3, 5} : markVisitedArea(<<0, 0, 6>>, r)

NextStay ==
  \/ StayStep
  \/ UncolorStep

SpecStay == Init /\ [][NextStay]_vars

\* where the player stands when a tick is made
TickPositions == {<<0, 0, 6>>, <<6, 0, 0>>}

\* The game loop alone: the start button is clicked once and the game is
\* never stopped; the browser keeps running frames and their callbacks, the
\* player anywhere in each.
FirstStartStep == ~isRunning /\ \E p \in TickPositions : start(p)

FrameStep == frame

AnimateStep == \E p \in TickPositions : animate(p)

NextTick ==
  \/ FirstStartStep
  \/ FrameStep
  \/ AnimateStep

SpecTick == Init /\ [][NextTick]_vars /\ WF_vars(FrameStep) /\ WF_vars(AnimateStep)

\* the largest number of animate callbacks waiting at once
MaxLoops == 2

\* the largest number of ticks a vertex is followed through
MaxTicks == 5

\* the fertilities of a vertex after at most MaxTicks ticks
FewTicks == {FertilityOrbit[n] : n \in 1..(MaxTicks + 1)}

\* Game.start() and Game.stop() in any order, while at most MaxLoops
\* callbacks wait and no vertex is marked more than MaxTicks times
StartStep ==
  /\ scheduled + due < MaxLoops
  /\ \E p \in TickPositions : start(p)
  /\ \A k \in 1..Len(vertexStates') : vertexStates'[k].fertility \in FewTicks

StopStep == stop

AnimateShortStep ==
  /\ AnimateStep
  /\ \A k \in 1..Len(vertexStates') : vertexStates'[k].fertility \in FewTicks

NextGame ==
  \/ StartStep
  \/ StopStep
  \/ FrameStep
  \/ AnimateShortStep

SpecGame == Init /\ [][NextGame]_vars

\* Sample points, coordinates in quarters: inside a cube, and on a face of a
\* cube with a negative coordinate.
Points ==
  { <<Dy(1, 2), Dy(1, 1), Dy(3, 2)>>,
    <<Dy(-5, 2), Dy(3, 2), DInt(2)>> }

Octaves == {0, 1, 4}

Persistences == {Dy(1, 1), DInt(-1)}

\* Vertices of a sphere of radius 4 where the coordinate axes meet it: the
\* directions that a double holds exactly.
Geometries == { << <<0, 0, 4>>, <<0, -4, 0>>, <<-4, 0, 0>> >> }

\* this.noiseScale: 10.0 in the program, where the axes meet the lattice of
\* the noise, and 10.25, where they do not
NoiseScales == {DInt(10), Dy(41, 2)}

\* this.noiseStrength: 1.0 in the program
NoiseStrengths == {1, 2}

NoiseStep == \E p \in Points : sampleNoise(p[1], p[2], p[3])

GetStep == \E p \in Points : sampleGet(p[1], p[2], p[3])

OctaveStep ==
  \E p \in Points, octaves \in Octaves, persistence \in Persistences :
    sampleOctaves(p[1], p[2], p[3], octaves, persistence)

\* applyNoiseToGeometry is private and called once, by the constructor of
\* WorldSphere on the geometry it has just built: the step that ends the
\* construction.
DisplaceStep ==
  /\ call.op = "constructor"
  /\ \E positions \in Geometries, noiseScale \in NoiseScales, noiseStrength \in NoiseStrengths :
       applyNoiseToGeometry(positions, noiseScale, noiseStrength)

NextNoise ==
  \/ NoiseStep
  \/ GetStep
  \/ OctaveStep
  \/ DisplaceStep

InitNoise == \E seed \in Seeds : Constructed(seed)

\* The noise of the terrain alone, built from any seed and sampled in any
\* order.
SpecNoise == InitNoise /\ [][NextNoise]_vars

\* Integer seeds handed to the constructor of PerlinNoise, which takes any
\* number: small ones of either sign and the ones around a multiple of 256.
IntegerSeeds == ((-20)..20) \cup {-257, -256, -255, 255, 256, 257}

InitSeed == \E seed \in IntegerSeeds : Constructed(DInt(seed))

NextSeed ==
  \/ NoiseStep
  \/ GetStep

\* The noise built from any integer seed and sampled in any order.
SpecSeed == InitSeed /\ [][NextSeed]_vars

\* the orders and signs of the coordinates of a quadruple
Arrangements(q) ==
  { UnitVector(sx * q[px], sy * q[py], sz * q[pz], q[4]) :
      sx \in {-1, 1}, sy \in {-1, 1}, sz \in {-1, 1},
      px \in 1..3, py \in 1..3, pz \in 1..3 }

\* Unit normals with rational coordinates: the axes, directions between
\* them, and directions within and just outside 0.99 of the y axis
\* (112/113 = 0.9911..., 56/57 = 0.9824...).
Quadruples == { <<0, 0, 1, 1>>, <<0, 3, 4, 5>>, <<1, 2, 2, 3>>, <<2, 3, 6, 7>>,
                <<9, 12, 112, 113>>, <<7, 8, 56, 57>> }

Normals ==
  { n \in UNION {Arrangements(q) : q \in Quadruples} : Dot(n.v, n.v) = n.sq }

TangentStep == \E normal \in Normals : tangentFrame(normal)

NextFrame == TangentStep

\* The tangent space of a blade for any unit normal.
SpecFrame == Init /\ [][NextFrame]_vars

\* The page from its load on: the home screen is initialized, the start
\* button is clicked while at most MaxLoops callbacks of the Game wait, the
\* browser runs the callbacks of both, while the HomeScreen has rendered less
\* than MaxRenders times.
HomeInitStep == homeInit

HomeAnimateStep == homeScreen.renders < MaxRenders /\ homeAnimate

ClickStep ==
  /\ scheduled + due < MaxLoops
  /\ \E p \in TickPositions : startButtonClick(p)
  /\ \A k \in 1..Len(vertexStates') : vertexStates'[k].fertility \in FewTicks

NextHome ==
  \/ HomeInitStep
  \/ HomeAnimateStep
  \/ ClickStep
  \/ FrameStep
  \/ AnimateShortStep

InitHome ==
  /\ vertexStates = <<>>
  /\ vertexColors = [i \in Vertices |-> originalColor]
  /\ visitedVertexCount = 0
  /\ grassCount = 0
  /\ placedGrassBlades = {}
  /\ instanceMatrix = [k \in 0..(maxGrassCount - 1) |-> NoInstance]
  /\ meshCount = maxGrassCount
  /\ initialized = TRUE
  /\ isRunning = FALSE
  /\ scheduled = 0
  /\ due = 0
  /\ ticksThisFrame = 0
  /\ perm = permutationFor(DInt(0))
  /\ earlier = NoCall
  /\ call = [op |-> "HomeScreen", arg |-> NoValue, ret |-> NoValue]
  /\ homeScreen = NewHomeScreen

SpecHome == InitHome /\ [][NextHome]_vars

----------------------------------------------------------------------------
(* Properties                                                               *)

Visited(i) == GetState(vertexStates, i).visited

FertilityOf(i) == GetState(vertexStates, i).fertility

\* number of instances generated for vertex v among the valid slots
InstancesOf(v) ==
  Cardinality({k \in DOMAIN instanceMatrix : k < grassCount /\ instanceMatrix[k] = v})

\* C1: under any sequence of update calls on arbitrary snapshots, interleaved
\* with markVisitedArea and uncolorVertex calls, grassCount never exceeds
\* maxGrassCount.
C1_CapacityRespected == grassCount <= maxGrassCount

\* an update has filled the instance buffer to its capacity
C1_CapacityReached == call.op = "update" /\ grassCount = maxGrassCount

\* C2: a vertex index is seeded at most once: a step appends instances for a
\* vertex only if the vertex was not in the placed set and is in it afterwards,
\* the placed set only grows, and calling update a second time with the
\* snapshot of the update just made appends no instance.
C2_SeededAtMostOnce ==
  [][ /\ placedGrassBlades \subseteq placedGrassBlades'
      /\ \A v \in Vertices :
           InstancesOf(v)' > InstancesOf(v)
             => v \notin placedGrassBlades /\ v \in placedGrassBlades'
      /\ call'.op = "update"
           => placeNewGrassBlades(call'.arg, grassCount', placedGrassBlades',
                                  instanceMatrix').newBlades = 0
    ]_vars

\* update has seeded both vertices, each once, from snapshots in which the
\* placed vertex occurred again
C2_BothSeeded ==
  /\ call.op = "update"
  /\ placedGrassBlades = {0, 1}
  /\ InstancesOf(0) > 0 /\ InstancesOf(1) > 0
  /\ \E k \in 1..Len(call.arg) : ~tooLow[call.arg[k].fertility]

\* C3: the fertility of every vertex is within [0, 1] in every reachable
\* state; it does not exceed 1.0 however long the vertex stays within the
\* radius.
C3_FertilityBounded ==
  \A i \in Vertices : FLeq(FZero, FertilityOf(i)) /\ FLeq(FertilityOf(i), FOne)

\* a markVisitedArea call has left a vertex at fertility 1.0
C3_Saturated ==
  /\ call.op = "markVisitedArea"
  /\ \E i \in Vertices : Visited(i) /\ FertilityOf(i) = FOne

\* C4: in every reachable state a vertex with fertility above 0 is visited;
\* an unvisited vertex has fertility exactly 0.
C4_FertileImpliesVisited ==
  \A k \in 1..Len(vertexStates) :
    /\ FLess(FZero, vertexStates[k].fertility) => vertexStates[k].visited
    /\ ~vertexStates[k].visited => vertexStates[k].fertility = FZero

\* uncolorVertex has reset a vertex that had gained fertility, while another
\* vertex is visited with fertility above 0
C4_ResetAndFertile ==
  /\ call.op = "uncolorVertex"
  /\ HasState(vertexStates, call.arg)
  /\ ~Visited(call.arg)
  /\ \E i \in Vertices : Visited(i) /\ FLess(FZero, FertilityOf(i))

\* C5: a visited vertex stays visited, and visitedVertexCount does not
\* decrease, across every step that is not an uncolorVertex call
\* (markVisitedArea, getCoveragePercentage, getFertileVertices, update).
C5_VisitedMonotone ==
  [][ call'.op # "uncolorVertex"
        => /\ \A i \in Vertices : Visited(i) => Visited(i)'
           /\ visitedVertexCount' >= visitedVertexCount
    ]_vars

\* a markVisitedArea call whose cylinder held no vertex has left both
\* visited vertices visited
C5_VisitedKept ==
  /\ call.op = "markVisitedArea"
  /\ call.arg <= 0
  /\ visitedVertexCount = 2
  /\ Visited(0) /\ Visited(1)

\* C6: across a markVisitedArea call no fertility decreases and a fertility
\* of 1.0 stays 1.0; a fertility drops only in an uncolorVertex call on
\* that vertex, which resets it to 0.
C6_FertilityMonotone ==
  [][ /\ call'.op = "markVisitedArea"
        => \A i \in Vertices :
             /\ FLeq(FertilityOf(i), FertilityOf(i)')
             /\ FertilityOf(i) = FOne => FertilityOf(i)' = FOne
      /\ \A i \in Vertices :
           FLess(FertilityOf(i)', FertilityOf(i))
             => call'.op = "uncolorVertex" /\ call'.arg = i /\ FertilityOf(i)' = FZero
    ]_vars

\* a markVisitedArea call has found one vertex saturated at 1.0 and raised
\* another that is not yet saturated
C6_SaturatedAndGrowing ==
  /\ call.op = "markVisitedArea"
  /\ call.arg = 5
  /\ FertilityOf(0) = FOne
  /\ FLess(FZero, FertilityOf(1)) /\ FLess(FertilityOf(1), FOne)

\* C7: the value returned by getCoveragePercentage and by markVisitedArea
\* equals 100 x visitedVertexCount / totalVertices (the double nearest to
\* it), computed after the marking of the call.
C7_CoverageIsPercentage ==
  call.op \in {"markVisitedArea", "getCoveragePercentage"}
    => call.ret = FDivInts(100 * visitedVertexCount, totalVertices)

\* vertex i lies strictly within coloringRadius of the line through the
\* origin and playerPosition: d < r, that is r > 0 and
\* |v|^2 |p|^2 - (v . p)^2 < r^2 |p|^2
Inside(i, playerPosition, coloringRadius) ==
  LET v == vertexPositions[i + 1]
  IN /\ coloringRadius > 0
     /\ Dot(v, v) * Dot(playerPosition, playerPosition)
          - Dot(v, playerPosition) * Dot(v, playerPosition)
        < coloringRadius * coloringRadius * Dot(playerPosition, playerPosition)

\* C8: markVisitedArea(p, radius) leaves the state (the map entry, visited,
\* fertility) and the color of every vertex unchanged whose distance d to the
\* line does not satisfy d < radius, the vertices at d = radius included, and
\* with radius <= 0 it changes no vertex state, no color and not the visited
\* count.
C8_StrictRadius ==
  [][ \A p \in PlayerPositions, r \in Radii :
        (call'.op = "markVisitedArea" /\ call'.arg = r /\ call'.position = p
           /\ markVisitedArea(p, r))
          => /\ \A i \in Vertices :
                  ~Inside(i, p, r)
                    => /\ HasState(vertexStates', i) <=> HasState(vertexStates, i)
                       /\ GetState(vertexStates', i) = GetState(vertexStates, i)
                       /\ vertexColors'[i] = vertexColors[i]
             /\ r <= 0 => UNCHANGED terrainVars
    ]_vars

\* a call with radius 3 from the z axis has marked vertex 0 (d = 0) and not
\* vertex 1, which lies at d = 3 exactly and has never been given a state
C8_TieExcluded ==
  /\ call.op = "markVisitedArea"
  /\ call.arg = 3
  /\ Visited(0)
  /\ ~HasState(vertexStates, 1)
  /\ vertexColors[1] = originalColor
  /\ visitedVertexCount = 1

\* C9: getFertileVertices returns one entry for every visited vertex and none
\* for any other, each with the current fertility of its vertex, in the order
\* of the entries of the state map, and changes no terrain state.
C9_SnapshotExact ==
  [][ call'.op = "getFertileVertices"
        => LET ret == call'.ret
           IN /\ UNCHANGED terrainVars
              /\ \A i \in Vertices :
                   Cardinality({k \in DOMAIN ret : ret[k].index = i})
                     = IF Visited(i) THEN 1 ELSE 0
              /\ \A k \in DOMAIN ret :
                   /\ ret[k].index \in Vertices
                   /\ ret[k].fertility = FertilityOf(ret[k].index)
              /\ \A j, k \in DOMAIN ret :
                   j < k => StateAt(vertexStates, ret[j].index)
                              < StateAt(vertexStates, ret[k].index)
    ]_vars

\* a snapshot of two visited vertices, vertex 1 inserted before vertex 0,
\* taken while the map held these two entries with different fertilities
C9_InsertionOrder ==
  /\ call.op = "getFertileVertices"
  /\ Len(call.ret) = 2
  /\ call.ret[1].index = 1 /\ call.ret[2].index = 0
  /\ call.ret[1].fertility # call.ret[2].fertility

\* C10: an update seeds no vertex all of whose snapshot entries have a
\* fertility below 0.1: it appends no instance for the vertex and does not
\* add it to the placed set, so that a later snapshot with fertility 0.1 would
\* place it.
C10_BelowThresholdSkipped ==
  [][ call'.op = "update"
        => \A v \in Vertices :
             ( /\ v \notin placedGrassBlades
               /\ \E k \in DOMAIN call'.arg : call'.arg[k].index = v
               /\ \A k \in DOMAIN call'.arg :
                    call'.arg[k].index = v
                      => FLess(call'.arg[k].fertility, FertilityThreshold) )
             => /\ v \notin placedGrassBlades'
                /\ InstancesOf(v)' = InstancesOf(v)
                /\ LET later == placeNewGrassBlades(<<Entry(v, FertilityThreshold)>>,
                                                    grassCount', placedGrassBlades',
                                                    instanceMatrix')
                   IN /\ v \in later.placed
                      /\ grassCount' < maxGrassCount => later.newBlades > 0
    ]_vars

\* an update has seeded vertex 1 and skipped vertex 0, whose entry in the
\* same snapshot was below the threshold
C10_SkippedBesideSeeded ==
  /\ call.op = "update"
  /\ call.arg = <<Entry(1, FertilityThreshold), Entry(0, FBelow)>>
  /\ placedGrassBlades = {1}
  /\ InstancesOf(0) = 0
  /\ InstancesOf(1) > 0

\* C11: a vertex that has stayed within the radius since it was unvisited is
\* not seeded after any of its ticks 1 to 9 and is seeded after its tick 10,
\* where its fertility reads 0.1.
C11_SeededOnTenthTick ==
  \A v \in Vertices : \A k \in 1..10 :
    (Visited(v) /\ FertilityOf(v) = FertilityOrbit[k + 1])
      => IF k < 10 THEN v \notin placedGrassBlades
         ELSE v \in placedGrassBlades /\ FertilityOf(v) = FertilityThreshold

\* the owners of the blades a snapshot asks for, in order: for every entry
\* at or above the threshold whose vertex is not placed and did not occur in
\* such an entry before, floor(150 x fertility) blades
RECURSIVE Wanted(_, _)
Wanted(fertileVertices, placed) ==
  IF fertileVertices = <<>> THEN <<>>
  ELSE IF \/ FLess(Head(fertileVertices).fertility, FertilityThreshold)
          \/ Head(fertileVertices).index \in placed
       THEN Wanted(Tail(fertileVertices), placed)
       ELSE [j \in 1..FFloor(FMulInt(Head(fertileVertices).fertility, GRASS_BLADES_PER_VERTEX))
               |-> Head(fertileVertices).index]
            \o Wanted(Tail(fertileVertices), placed \cup {Head(fertileVertices).index})

Min(a, b) == IF a < b THEN a ELSE b

\* C12: grassCount never decreases; no step changes a slot below grassCount;
\* an update appends the blades its snapshot asks for, in order, as far as
\* the capacity goes and drops the rest; with the capacity exhausted every
\* step leaves grassCount and all slots unchanged.
C12_AppendOnly ==
  [][ /\ grassCount' >= grassCount
      /\ \A k \in DOMAIN instanceMatrix :
           k < grassCount => instanceMatrix'[k] = instanceMatrix[k]
      /\ DOMAIN instanceMatrix' = DOMAIN instanceMatrix
      /\ grassCount = maxGrassCount
           => grassCount' = grassCount /\ instanceMatrix' = instanceMatrix
      /\ call'.op = "update"
           => /\ grassCount' = Min(maxGrassCount,
                                    grassCount + Len(Wanted(call'.arg, placedGrassBlades)))
              /\ \A k \in DOMAIN instanceMatrix :
                   (grassCount <= k /\ k < grassCount')
                     => instanceMatrix'[k]
                          = Wanted(call'.arg, placedGrassBlades)[k - grassCount + 1]
    ]_vars

\* an update has reached the capacity within the blades of vertex 1 and
\* dropped the rest of them and all blades of vertex 2, the next in the snapshot
C12_DroppedAtCapacity ==
  /\ call.op = "update"
  /\ call.arg = <<Entry(1, FOne), Entry(2, FertilityThreshold)>>
  /\ grassCount = maxGrassCount
  /\ InstancesOf(1) > 0 /\ InstancesOf(1) < GRASS_BLADES_PER_VERTEX
  /\ InstancesOf(2) = 0
  /\ 2 \in placedGrassBlades

\* C13: update leaves the vertex states, the visited count and the color
\* buffer unchanged; markVisitedArea, getCoveragePercentage, getFertileVertices
\* and uncolorVertex leave grassCount, the instance slots and the placed set
\* unchanged.
C13_SeparateStorage ==
  [][ /\ call'.op = "update" => UNCHANGED terrainVars
      /\ call'.op \in {"markVisitedArea", "getCoveragePercentage",
                       "getFertileVertices", "uncolorVertex"}
           => UNCHANGED <<grassCount, instanceMatrix, placedGrassBlades, meshCount>>
    ]_vars

\* uncolorVertex has reset a vertex that keeps its instances and its place
\* in the placed set
C13_GrassKeptAfterUncolor ==
  /\ call.op = "uncolorVertex"
  /\ HasState(vertexStates, call.arg)
  /\ ~Visited(call.arg)
  /\ vertexColors[call.arg] = originalColor
  /\ call.arg \in placedGrassBlades
  /\ InstancesOf(call.arg) > 0

\* C14: uncolorVertex(i) on a visited vertex i makes it unvisited with
\* fertility 0, sets its color to the original color and lowers
\* visitedVertexCount by 1; the state, the place in the map and the color of
\* every other vertex stay as they are.
C14_UncolorResetsOne ==
  [][ \A i \in Vertices :
        (call'.op = "uncolorVertex" /\ call'.arg = i /\ Visited(i))
          => /\ HasState(vertexStates', i)
             /\ ~Visited(i)'
             /\ FertilityOf(i)' = FZero
             /\ vertexColors'[i] = originalColor
             /\ visitedVertexCount' = visitedVertexCount - 1
             /\ Len(vertexStates') = Len(vertexStates)
             /\ \A k \in 1..Len(vertexStates) :
                  /\ vertexStates'[k].index = vertexStates[k].index
                  /\ vertexStates[k].index # i => vertexStates'[k] = vertexStates[k]
             /\ \A j \in Vertices \ {i} : vertexColors'[j] = vertexColors[j]
    ]_vars

\* uncolorVertex(0) has reset vertex 0 while vertex 1, entered in the map
\* before it, is visited with its fertility and its color
C14_OneOfTwoReset ==
  /\ call.op = "uncolorVertex"
  /\ call.arg = 0
  /\ Len(vertexStates) = 2
  /\ vertexStates[1].index = 1 /\ vertexStates[1].visited
  /\ vertexStates[1].fertility = FertilityOrbit[3]
  /\ vertexStates[2] = [index |-> 0, visited |-> FALSE, fertility |-> FZero]
  /\ vertexColors = [j \in Vertices |-> IF j = 1 THEN visitColor ELSE originalColor]
  /\ visitedVertexCount = 1

\* the result of a call that ended by throwing
Thrown == "error"

\* C15: uncolorVertex with an index outside 0..totalVertices-1 fails fast: the
\* call ends by throwing instead of returning normally.
C15_OutOfRangeFailsFast ==
  (call.op = "uncolorVertex" /\ call.arg \notin Vertices) => call.ret = Thrown

\* C16: under the tick loop, as long as the capacity is not exhausted, every
\* vertex that is visited eventually has grass instances, however short its
\* stay inside the coloring radius was.
C16_VisitedEventuallyGrows ==
  \A v \in Vertices :
    [](Visited(v) => <>(InstancesOf(v) > 0 \/ grassCount = maxGrassCount))

\* C17: whatever the sequence of start() and stop() calls, the callbacks of
\* one animation frame make at most one tick (one markVisitedArea, one
\* getFertileVertices, one update).
C17_OneTickPerFrame == ticksThisFrame <= 1

\* C18: every noise(x, y, z) is a number in [-1, 1] and every
\* octaveNoise(x, y, z, octaves, persistence) is a number in [0, 1], whatever
\* the octave count and the persistence.
C18_NoiseInRange ==
  /\ call.op = "noise" => DLeq(DAbs(call.ret), DOne)
  /\ call.op = "octaveNoise" => InUnitInterval(call.ret)

\* the radius of a stored position that lies on the half line from the
\* center through direction, NaN for any other position
RadiusAlong(position, direction) ==
  IF \A c \in 1..3 :
       /\ position[c].kind = "number"
       /\ (direction[c] = 0) => (position[c].mag = FZero)
       /\ (direction[c] # 0) => (position[c].neg = (direction[c] < 0))
    THEN LET c == CHOOSE d \in 1..3 : direction[d] # 0
         IN Number(FALSE, position[c].mag)
    ELSE NaN

\* C19: every position that applyNoiseToGeometry stores lies along the
\* original direction of its vertex, at a radius that differs from the original
\* radius by at most noiseStrength.
C19_DisplacementBounded ==
  call.op = "applyNoiseToGeometry" =>
    \A i \in 1..Len(call.arg.positions) :
      SWithin(SAdd(RadiusAlong(call.ret[i], Normalize(call.arg.positions[i])),
                   SInt(-Length(call.arg.positions[i]))),
              call.arg.noiseStrength)

\* a geometry with a vertex moved outwards and a vertex moved inwards
C19_MovedBothWays ==
  /\ call.op = "applyNoiseToGeometry"
  /\ \E i, j \in 1..Len(call.arg.positions) :
       /\ FLess(FromInt(Length(call.arg.positions[i])),
                RadiusAlong(call.ret[i], Normalize(call.arg.positions[i])).mag)
       /\ FLess(RadiusAlong(call.ret[j], Normalize(call.arg.positions[j])).mag,
                FromInt(Length(call.arg.positions[j])))

\* C20: an octaveNoise call returns what an earlier call with the same
\* arguments returned, whatever was called in between, and no step changes
\* the permutation table.
C20_OctaveNoisePure ==
  /\ []((call.op = "octaveNoise" /\ earlier.arg = call.arg) => call.ret = earlier.ret)
  /\ [][perm' = perm]_vars

\* the same arguments again after another call in between
C20_SameArgumentsAgain ==
  /\ call.op = "octaveNoise"
  /\ earlier.arg = call.arg
  /\ earlier.since = MaxSince
  /\ call.ret.kind = "number"

\* C21: a markVisitedArea call gives every vertex with d < radius the
\* fertility min(1.0, old fertility + 0.01), visited before or not, leaves it
\* visited, gives a vertex that was unvisited the visited color, and raises
\* the visited count by one for each vertex that was unvisited.
C21_MarkEffect ==
  [][ \A p \in PlayerPositions, r \in Radii :
        (call'.op = "markVisitedArea" /\ call'.arg = r /\ call'.position = p
           /\ markVisitedArea(p, r))
          => /\ \A i \in Vertices :
                  Inside(i, p, r)
                    => /\ FertilityOf(i)' = FMin(FOne, FAdd(FertilityOf(i), FertilityStep))
                       /\ Visited(i)'
                       /\ ~Visited(i) => vertexColors'[i] = visitColor
                       /\ Visited(i) => vertexColors'[i] = vertexColors[i]
             /\ visitedVertexCount'
                  = visitedVertexCount
                      + Cardinality({i \in Vertices : Inside(i, p, r) /\ ~Visited(i)})
    ]_vars

\* a call has raised the fertility of vertex 0, visited before, a second
\* time and has made vertex 1 visited
C21_RevisitedAndFirstVisit ==
  /\ call.op = "markVisitedArea"
  /\ call.arg = 5
  /\ FertilityOf(0) = FertilityOrbit[3]
  /\ FertilityOf(1) = FertilityOrbit[2]
  /\ Visited(0) /\ Visited(1)
  /\ vertexColors[1] = visitColor
  /\ visitedVertexCount = 2

\* C22: in every state reached by markVisitedArea and uncolorVertex calls,
\* uncolorVertex on unvisited and never-touched vertices included,
\* visitedVertexCount is the number of visited vertices, within
\* 0..totalVertices, and the coverage is within [0, 100].
C22_CountIsVisited ==
  /\ visitedVertexCount = Cardinality({i \in Vertices : Visited(i)})
  /\ visitedVertexCount \in 0..totalVertices
  /\ FLeq(coverage[visitedVertexCount], FromInt(100))

\* uncolorVertex was called for a vertex that never had an entry, beside two
\* visited vertices
C22_UncolorNeverTouched ==
  /\ call.op = "uncolorVertex"
  /\ call.arg \in Vertices
  /\ ~HasState(vertexStates, call.arg)
  /\ visitedVertexCount = 2

\* the entry k of a snapshot seeds its vertex: its fertility is at least 0.1,
\* the vertex is not placed and no earlier entry of the snapshot seeded it
SeedsVertex(fertileVertices, k, placed) ==
  /\ ~FLess(fertileVertices[k].fertility, FertilityThreshold)
  /\ fertileVertices[k].index \notin placed
  /\ \A j \in 1..(k - 1) :
       fertileVertices[j].index = fertileVertices[k].index
         => FLess(fertileVertices[j].fertility, FertilityThreshold)

\* the instances present when entry k of the snapshot is reached
PresentAt(fertileVertices, k, count, placed) ==
  Min(maxGrassCount, count + Len(Wanted(SubSeq(fertileVertices, 1, k - 1), placed)))

\* C23: when an update seeds a vertex (an entry with fertility >= 0.1 whose
\* vertex is not yet placed), the vertex is in the placed set afterwards,
\* whether or not a blade was generated for it, and the number of instances
\* appended for it is min(floor(150 x fertility), maxGrassCount - instances
\* present when its entry is reached).
C23_SeededVertex ==
  [][ call'.op = "update"
        => \A k \in DOMAIN call'.arg : \A v \in Vertices :
             (call'.arg[k].index = v /\ SeedsVertex(call'.arg, k, placedGrassBlades))
               => /\ v \in placedGrassBlades'
                  /\ InstancesOf(v)' - InstancesOf(v)
                       = Min(FFloor(FMulInt(call'.arg[k].fertility,
                                            GRASS_BLADES_PER_VERTEX)),
                             maxGrassCount
                               - PresentAt(call'.arg, k, grassCount, placedGrassBlades))
    ]_vars

\* an update has seeded vertex 0 with the buffer already full: the vertex is
\* placed and has no instance
C23_PlacedWithoutBlade ==
  /\ call.op = "update"
  /\ call.arg = <<Entry(0, FertilityThreshold)>>
  /\ grassCount = maxGrassCount
  /\ 0 \in placedGrassBlades
  /\ InstancesOf(0) = 0
  /\ InstancesOf(1) = maxGrassCount

\* C24: after an update that added at least one blade, the count published
\* to the mesh equals grassCount; an update that added no blade leaves the
\* published count unchanged.
C24_CountPublished ==
  [][ call'.op = "update"
        => /\ grassCount' > grassCount => meshCount' = grassCount'
           /\ grassCount' = grassCount => meshCount' = meshCount
    ]_vars

\* a second update has added blades: the published count went from 15 to the
\* number of transforms written so far, the capacity
C24_PublishedTwice ==
  /\ call.op = "update"
  /\ call.arg = <<Entry(1, FOne)>>
  /\ InstancesOf(0) = 15
  /\ InstancesOf(1) = maxGrassCount - 15
  /\ grassCount = maxGrassCount
  /\ meshCount = maxGrassCount

\* the indices at which noise(x, y, z) reads the table
indicesRead(table, x, y, z) ==
  LET X == DFloor(x) % 256
      c == corners(table, X, DFloor(y) % 256, DFloor(z) % 256)
  IN { {X}, {X + 1}, c.A, plus(c.A, 1), c.B, plus(c.B, 1),
       c.AA, plus(c.AA, 1), c.AB, plus(c.AB, 1),
       c.BA, plus(c.BA, 1), c.BB, plus(c.BB, 1) }

\* C25: for every integer seed the table has 512 entries with
\* perm[i] = perm[i + 256] = (i + (seed mod 256)) mod 256 for i in 0..255, its
\* first 256 entries are a permutation of 0..255, and every index at which
\* noise reads the table lies within 0..511.
C25_TableForEverySeed ==
  /\ DOMAIN perm = 0..511
  /\ \A seed \in IntegerSeeds :
       perm = permutationFor(DInt(seed))
         => \A i \in 0..255 :
              perm[i] = (i + (seed % 256)) % 256 /\ perm[i + 256] = perm[i]
  /\ {perm[i] : i \in 0..255} = 0..255
  /\ call.op \in {"noise", "get"}
       => \A i \in indicesRead(perm, call.arg[1], call.arg[2], call.arg[3]) :
            i # {} /\ i \subseteq 0..511

\* the dot product of two vectors is zero
Perpendicular(a, b) == Dot(a.v, b.v) = 0

\* the length of a vector is one
UnitLength(a) == Dot(a.v, a.v) = a.sq

\* C26: for every unit normal the seed axis chosen for the tangent frame is
\* not parallel to the normal: the cross product of seed axis and normal is
\* not the zero vector, and tangent, bitangent and normal are of length one
\* and perpendicular to each other; the x axis is the seed exactly when the
\* normal is within 0.99 of the y axis.
C26_TangentFrameOrthonormal ==
  call.op = "tangentSpace"
    => LET f == call.ret
       IN /\ crossVectors(f.seed, f.normal).v # <<0, 0, 0>>
          /\ UnitLength(f.normal) /\ UnitLength(f.tangent) /\ UnitLength(f.bitangent)
          /\ Perpendicular(f.tangent, f.normal)
          /\ Perpendicular(f.bitangent, f.normal)
          /\ Perpendicular(f.tangent, f.bitangent)
          /\ f.seed.v = <<1, 0, 0>> <=> 100 * AbsInt(f.normal.v[2]) >= 99 * ISqrt(f.normal.sq)

\* the frame of the normal (0, 1, 0), which is parallel to the axis (0, 1, 0):
\* the seed was the x axis and the tangent is a unit vector
C26_NormalAlongY ==
  /\ call.op = "tangentSpace"
  /\ call.arg = UnitVector(0, 1, 0, 1)
  /\ call.ret.seed.v = <<1, 0, 0>>
  /\ call.ret.tangent = Vec(<<0, 0, 1>>, 1)
  /\ call.ret.bitangent = Vec(<<1, 0, 0>>, 1)

\* Scalars by which a player position is multiplied
Scalars == {-3, -1, 2}

Scale(k, position) == [c \in 1..3 |-> k * position[c]]

\* C27: the vertices markVisitedArea(p, radius) affects depend only on the
\* radius and on the line through the origin and p: for every scalar k other
\* than 0, negative ones included, markVisitedArea(k p, radius) applied to the
\* same state leaves the same vertex states, colors and count, and a vertex
\* inside the column on the far side of the planet is marked.
C27_LineOnly ==
  [][ call'.op = "markVisitedArea"
        => /\ \A k \in Scalars :
                \E centerToPlayer \in {Normalize(Scale(k, call'.position))} :
                  \E scaled \in {markLoop(0,
                                          [states |-> vertexStates, colors |-> vertexColors,
                                           count |-> visitedVertexCount, newlyVisited |-> 0],
                                          centerToPlayer, call'.arg)} :
                    /\ vertexStates' = scaled.states
                    /\ vertexColors' = scaled.colors
                    /\ visitedVertexCount' = scaled.count
           /\ \A i \in Vertices :
                ( /\ Dot(vertexPositions[i + 1], call'.position) < 0
                  /\ Inside(i, call'.position, call'.arg) )
                  => Visited(i)'
    ]_vars

\* markVisitedArea from (0, 0, -6) has marked vertices 0 and 1, which lie on
\* the other side of the center, for the first time
C27_FarSideMarked ==
  /\ call.op = "markVisitedArea"
  /\ call.position = <<0, 0, -6>>
  /\ call.arg = 5
  /\ Dot(vertexPositions[1], call.position) < 0
  /\ Dot(vertexPositions[2], call.position) < 0
  /\ Visited(0) /\ Visited(1)
  /\ FertilityOf(0) = FertilityOrbit[2]
  /\ FertilityOf(1) = FertilityOrbit[2]

\* C28: in every state reached by markVisitedArea and uncolorVertex calls in
\* any order, the color of a vertex is the visited color if the vertex is
\* visited and the original color if it is not.
C28_ColorMirrorsVisited ==
  \A i \in Vertices :
    vertexColors[i] = IF Visited(i) THEN visitColor ELSE originalColor

\* vertex 0 has just been uncolored after a visit while vertex 1 stays
\* visited: vertex 0 has the original color again, vertex 1 the visited color,
\* and vertex 2, never touched, the original color
C28_UncoloredBesideVisited ==
  /\ call.op = "uncolorVertex"
  /\ call.arg = 0
  /\ HasState(vertexStates, 0) /\ ~Visited(0)
  /\ vertexColors[0] = originalColor
  /\ Visited(1)
  /\ vertexColors[1] = visitColor
  /\ ~HasState(vertexStates, 2)
  /\ vertexColors[2] = originalColor

\* C29: at every observation point after the construction of the
\* GrassSystem, before the first blade and after updates that add no blade
\* included, the instance count of the mesh equals grassCount.
C29_PublishedCountIsGrassCount == meshCount = grassCount

\* C30: once HomeScreen.hide() was called, the animate loop of the home
\* screen makes no render call and hands no callback to
\* requestAnimationFrame.
C30_HiddenStopsRendering ==
  [][ homeScreen.hidden
        => /\ homeScreen'.renders = homeScreen.renders
           /\ homeScreen'.pending <= homeScreen.pending
    ]_vars

====
